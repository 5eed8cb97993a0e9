----------------------------- MODULE ReplayOrder -----------------------------
(***************************************************************************)
(* The order in which internal/reconcile/m6_engine.go replays the queued   *)
(* transactions: SortTransactionsVectorClock and the comparison it uses.   *)
(* A small state machine delivers transactions to the queue one by one, in *)
(* every order, and the properties are about the sort of what has arrived. *)
(***************************************************************************)
EXTENDS Integers, Sequences, FiniteSets, SequencesExt

CONSTANT Queued     \* the transactions that may arrive

(***************************************************************************)
(* A queued transaction, as far as the sort looks at it.  The strings it   *)
(* compares (TerminalID and TxID) are given by their ranks.  Of one TxID   *)
(* the log's map holds one payload.                                        *)
(***************************************************************************)
ASSUME QueuedAssumption ==
  /\ \A q \in Queued :
       /\ {"VectorClock", "SeqNo", "SequenceNum", "TerminalID",
           "ClientTimestamp", "TxID"} \subseteq DOMAIN q
       /\ q.SeqNo \in Nat
       /\ {q.SequenceNum, q.TerminalID, q.ClientTimestamp, q.TxID}
            \subseteq Int
       /\ \A k \in DOMAIN q.VectorClock : q.VectorClock[k] \in Nat
  /\ \A p, q \in Queued : p.TxID = q.TxID => p = q

VARIABLE batch      \* what has arrived, in order of arrival

(* A missing component of a clock reads as 0, as in a Go map.              *)
At(clock, k) == IF k \in DOMAIN clock THEN clock[k] ELSE 0

CompareVectorClocks(va, vb) ==
  LET keys == DOMAIN va \cup DOMAIN vb
      aLeB == \A k \in keys : At(va, k) <= At(vb, k)
      bLeA == \A k \in keys : At(vb, k) <= At(va, k)
  IN  IF aLeB /\ ~bLeA THEN -1
      ELSE IF bLeA /\ ~aLeB THEN 1
      ELSE 0

(* Mutant: causality is a tie-breaker behind the sequence numbers.         *)
LessSeqNoFirst(p, q) ==
  IF p.SeqNo /= q.SeqNo THEN p.SeqNo < q.SeqNo
  ELSE IF CompareVectorClocks(p.VectorClock, q.VectorClock) /= 0
  THEN CompareVectorClocks(p.VectorClock, q.VectorClock) < 0
  ELSE p.TxID < q.TxID

(* Mutant: the last tie-breakers are missing.                              *)
LessWithoutTieBreak(p, q) ==
  IF CompareVectorClocks(p.VectorClock, q.VectorClock) /= 0
  THEN CompareVectorClocks(p.VectorClock, q.VectorClock) < 0
  ELSE p.SeqNo < q.SeqNo

(* The less function passed to sort.SliceStable.                           *)
Less(p, q) ==
  LET cmp == CompareVectorClocks(p.VectorClock, q.VectorClock)
  IN  IF cmp /= 0 THEN cmp < 0
      ELSE IF p.SeqNo /= q.SeqNo THEN p.SeqNo < q.SeqNo
      ELSE IF p.SequenceNum /= q.SequenceNum
           THEN p.SequenceNum < q.SequenceNum
      ELSE IF p.TerminalID /= q.TerminalID THEN p.TerminalID < q.TerminalID
      ELSE IF p.ClientTimestamp /= q.ClientTimestamp
           THEN p.ClientTimestamp < q.ClientTimestamp
      ELSE p.TxID < q.TxID

(***************************************************************************)
(* sort.SliceStable on up to 20 elements is an insertion sort: an element  *)
(* moves left while it is less than its left neighbour.                    *)
(***************************************************************************)
InsertSorted(s, q) ==
  LET stop == Max({0} \cup {j \in DOMAIN s : ~Less(q, s[j])})
  IN  InsertAt(s, stop + 1, q)

SortTransactionsVectorClock(s) == FoldLeft(InsertSorted, <<>>, s)

-----------------------------------------------------------------------------
ArrivalInit == batch = <<>>

Arrive(q) ==
  /\ q \notin ToSet(batch)
  /\ batch' = Append(batch, q)

ArrivalNext == \E q \in Queued : Arrive(q)

ArrivalSpec == ArrivalInit /\ [][ArrivalNext]_batch

-----------------------------------------------------------------------------
(* The comparison orders the transactions of s without contradiction.      *)
(* (It need not: it compares some pairs by clock, the others by SeqNo.)    *)
Consistent(s) ==
  \A i, j, k \in DOMAIN s :
    Less(s[i], s[j]) /\ Less(s[j], s[k]) => Less(s[i], s[k])

(* The clock of q counts p among the events of p's terminal.               *)
Knows(q, p) == p.SeqNo <= At(q.VectorClock, p.TerminalID)

(***************************************************************************)
(* What the terminals promise, who send the clocks: a terminal counts its  *)
(* own events, and a clock that counts an event counts all that this event *)
(* knew of, but not the other way round.                                   *)
(***************************************************************************)
ClocksCount ==
  \A p, q \in Queued :
    /\ At(p.VectorClock, p.TerminalID) = p.SeqNo
    /\ Knows(q, p) =>
         /\ \A k \in DOMAIN p.VectorClock :
              p.VectorClock[k] <= At(q.VectorClock, k)
         /\ Knows(p, q) => p = q

(* At most two terminals have sent the transactions of s.                  *)
FewTerminals(s) == Cardinality({s[i].TerminalID : i \in DOMAIN s}) <= 2

(***************************************************************************)
(* The replay follows causality: no transaction is replayed before one     *)
(* that causally precedes it, in any batch of two terminals, and in every  *)
(* other batch on which the comparison does not contradict itself.         *)
(***************************************************************************)
ReplayIsCausal ==
  FewTerminals(batch) \/ Consistent(batch) =>
    LET sorted == SortTransactionsVectorClock(batch)
    IN  \A i, j \in DOMAIN sorted :
          i < j => CompareVectorClocks(sorted[i].VectorClock,
                                       sorted[j].VectorClock) /= 1

(* The batch in which two neighbours arrived the other way round.          *)
Swapped(s, i) ==
  [k \in DOMAIN s |-> s[IF k = i THEN i + 1 ELSE IF k = i + 1 THEN i ELSE k]]

(***************************************************************************)
(* "100% reproducible execution order regardless of batch arrival          *)
(* permutation" (README.md:115), as far as it goes: exchanging two         *)
(* arrivals does not change the replay, in any batch of two terminals, and *)
(* in every other batch on which the comparison does not contradict        *)
(* itself.  Every permutation is a product of such exchanges.  With three  *)
(* terminals the comparison does contradict itself: a tenth event of the   *)
(* first terminal, a first event of a second one that has heard of it and  *)
(* a fifth event of a third terminal form a circle, and the replay follows *)
(* the order of arrival.                                                   *)
(***************************************************************************)
ReplayIsReproducible ==
  FewTerminals(batch) \/ Consistent(batch) =>
    \A i \in 1..(Len(batch) - 1) :
      SortTransactionsVectorClock(Swapped(batch, i)) =
        SortTransactionsVectorClock(batch)

=============================================================================
