---------------------------- MODULE MCReconciler ----------------------------
(***************************************************************************)
(* One customer with three offline payments, one of them of a negative     *)
(* amount, and an online one.                                              *)
(***************************************************************************)
EXTENDS Reconciler

CONSTANTS alice, shop, off1, off2, negative, on1

(* Recovery found the first payment in the log twice: an append whose      *)
(* fsync failed was retried.                                               *)
MCRecovered == <<off1, off1>>

MCOpeningBalances == {-1, 2}

Pays(n) == [AccountID |-> alice, MerchantID |-> shop, Amount |-> n]

MCPayment ==
  [tx \in TxIDs |->
     Pays(CASE tx = off1 -> 2 [] tx = negative -> -1 [] OTHER -> 1)]

=============================================================================
