--------------------------- MODULE MCFraudEngine ---------------------------
(***************************************************************************)
(* Three accounts that can pay in rings of two and of three.               *)
(***************************************************************************)
EXTENDS FraudEngine, TLC

CONSTANTS g1, g2, ann, bob, cyd, dev1, dev2, pos, shop, other

Call(from, to, device, amount, qr) ==
  [from |-> from, to |-> to, device |-> device, amount |-> amount, qr |-> qr]

QR(terminal, merchant, genuine) ==
  [terminal |-> terminal, merchant |-> merchant, genuine |-> genuine]

MCCalls ==
  {Call(ann, bob, dev1, 1, NoQR), Call(ann, NoAccount, dev2, 2, NoQR),
   Call(bob, cyd, NoDevice, 1, NoQR),
   Call(bob, ann, NoDevice, 1, QR(pos, shop, TRUE)),
   Call(bob, ann, NoDevice, 1, QR(pos, other, TRUE)),
   Call(cyd, ann, NoDevice, 1, NoQR)}

(* Goroutines are alike.                                                   *)
MCSymmetry == Permutations(Screeners)

MCTerminalMerchant == [t \in {pos} |-> shop]

MCThresholds == {[warn |-> 1, reject |-> 2], [warn |-> 2, reject |-> 0]}

=============================================================================
