---------------------------- MODULE MCStandalone ----------------------------
(***************************************************************************)
(* A customer and a merchant pay each other, both ways; payments also name *)
(* a payer or a payee that nobody opened, or are over the limit, or        *)
(* negative.  Two requests submit any of them; the network is switched     *)
(* three times, so that two replays can overlap.                           *)
(***************************************************************************)
EXTENDS Standalone, TLC

CONSTANTS customer, merchant, unknown,
          buy, refund, toUnknown, fromUnknown, large, negative

MCRank ==
  customer :> 0 @@ AccountDeficitReserve :> 1 @@ merchant :> 2 @@ unknown :> 3

MCOpeningOnline ==
  customer :> 2 @@ merchant :> 0 @@ AccountDeficitReserve :> 1

MCOpeningAllowance ==
  customer :> 1 @@ merchant :> 0 @@ AccountDeficitReserve :> 0

Pays(a, b, n) == [AccountID |-> a, MerchantID |-> b, Amount |-> n]

MCPayment ==
  buy :> Pays(customer, merchant, 2) @@ refund :> Pays(merchant, customer, 1)
    @@ toUnknown :> Pays(customer, unknown, 1)
    @@ fromUnknown :> Pays(unknown, merchant, 1)
    @@ large :> Pays(customer, merchant, 3)
    @@ negative :> Pays(customer, merchant, -1)

=============================================================================
