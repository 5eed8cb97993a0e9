-------------------------- MODULE MCCompactFilter --------------------------
(***************************************************************************)
(* Four ids in two buckets of two slots.  card1 and card2 cannot be told   *)
(* apart, though their home buckets differ; both buckets of acc1 are one,  *)
(* so that it makes room by displacing others.                             *)
(***************************************************************************)
EXTENDS CompactFilter

CONSTANTS acc1, acc2, card1, card2

MCFingerprint ==
  [k \in Ids |-> CASE k \in {card1, card2} -> 1
                   [] k = acc1 -> 2
                   [] k = acc2 -> 3]

MCHome == [k \in Ids |-> IF k = card2 THEN 1 ELSE 0]

MCOtherIndex ==
  [fp \in Fingerprints |-> [i \in Indices |-> IF fp = 2 THEN i ELSE 1 - i]]

=============================================================================
