--------------------------- MODULE MCReplayOrder ---------------------------
(***************************************************************************)
(* Transactions of terminals that count their own events and, when they    *)
(* hear of another terminal's events, take over its clock.                 *)
(***************************************************************************)
EXTENDS ReplayOrder, TLC

Tx(id, terminal, seqNo, clock) ==
  [TxID |-> id, TerminalID |-> terminal, SeqNo |-> seqNo, SequenceNum |-> 0,
   ClientTimestamp |-> 0, VectorClock |-> clock]

(* Two terminals: the second hears of the first's second event before its  *)
(* own first one, the first of the second's second before its own fourth.  *)
(* A third terminal has heard of nobody, except in its last transaction.   *)
MCQueued ==
  {Tx(1, 1, 2, 1 :> 2), Tx(2, 1, 3, 1 :> 3), Tx(3, 1, 4, 1 :> 4 @@ 2 :> 2),
   Tx(4, 2, 1, 1 :> 2 @@ 2 :> 1), Tx(5, 2, 2, 1 :> 2 @@ 2 :> 2),
   Tx(6, 3, 1, 3 :> 1), Tx(7, 3, 2, 1 :> 3 @@ 3 :> 2)}

(* Their clocks are those of terminals that keep their promise.            *)
ASSUME MCClocksCount == ClocksCount

=============================================================================
