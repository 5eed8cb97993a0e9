------------------------------ MODULE MCLedger ------------------------------
(***************************************************************************)
(* A ledger with a customer, a merchant that may not be open yet and the   *)
(* system accounts.                                                        *)
(***************************************************************************)
EXTENDS Ledger, TLC

CONSTANTS alice, shop

(* Alice and the shop are interchangeable: no action tells them apart.     *)
MCSymmetry == Permutations({alice, shop})

(* Requests are JSON: nothing keeps an amount or a balance from being      *)
(* negative.                                                               *)
MCAmounts == {-1, 0, 1, 2}
MCOpeningBalances == {-1, 2}

=============================================================================
