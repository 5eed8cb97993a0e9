---------------------------- MODULE Transactions ----------------------------
(***************************************************************************)
(* What the components have in common: the ids of the payments and of the  *)
(* accounts, and the amounts.  A retry carries the id of the payment it    *)
(* retries.                                                                *)
(***************************************************************************)
CONSTANTS
  TxIDs,
  Accounts,   \* account ids, the system accounts included
  Amounts     \* amounts, in cents, that callers pass

=============================================================================
