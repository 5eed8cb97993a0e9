--------------------------- MODULE CompactFilter ---------------------------
(***************************************************************************)
(* The cuckoo filter of internal/fraud/compact_filter.go that holds the    *)
(* revoked ids.  An id is stored as its fingerprint, in one of two buckets *)
(* that each follow from the other and the fingerprint; when both are full *)
(* Insert displaces a stored fingerprint to its other bucket, and so on,   *)
(* MaxKicks times.                                                         *)
(*                                                                         *)
(* Insert holds cf.mu, so nobody looks at the filter while `hand' holds a  *)
(* displaced fingerprint; one displacement is one step here.  The hash     *)
(* functions are constants; of hashFingerprint only the property of xor    *)
(* matters that the other bucket of the other bucket is the first.         *)
(***************************************************************************)
EXTENDS Integers, FiniteSets

CONSTANTS
  Ids,           \* the keys: ids of accounts and of tokens
  Indices,       \* the bucket indices, 0 .. numBuckets - 1
  Fingerprints,  \* the non-zero fingerprints
  Fingerprint,   \* the fingerprint of each id
  Home,          \* the index i1 of each id
  OtherIndex,    \* OtherIndex[fp][i] is i ^ hashFingerprint(fp), masked
  BucketSize,
  MaxKicks,
  EmptySlot,     \* the fingerprint 0
  Nobody         \* no id

Slots == 1..BucketSize

ASSUME HashAssumption ==
  /\ Fingerprint \in [Ids -> Fingerprints]
  /\ Home \in [Ids -> Indices]
  /\ OtherIndex \in [Fingerprints -> [Indices -> Indices]]
  /\ \A fp \in Fingerprints, i \in Indices :
       OtherIndex[fp][OtherIndex[fp][i]] = i
ASSUME IndicesAssumption == IsFiniteSet(Indices)
ASSUME EmptySlotAssumption == EmptySlot \notin Fingerprints
ASSUME NobodyAssumption == Nobody \notin Ids
ASSUME BucketSizeAssumption == BucketSize \in Nat \ {0}
ASSUME MaxKicksAssumption == MaxKicks \in Nat

VARIABLES
  buckets,    \* cf.buckets
  count,      \* cf.count
  hand,       \* key, currFP, currIdx and kick of an Insert that displaces
  data,       \* what Serialize wrote last
  confirmed   \* history: Insert returned TRUE, and no failed Insert since
              \* dropped the fingerprint

filterVars == <<buckets, count, hand, data, confirmed>>

(* The two buckets of an id.                                               *)
BucketsOf(k) == {Home[k], OtherIndex[Fingerprint[k]][Home[k]]}

NoHand == [key |-> Nobody, fp |-> EmptySlot, idx |-> 0, kick |-> 0]

Hand == [key : Ids, fp : Fingerprints, idx : Indices, kick : 0..MaxKicks]

EmptyBuckets == [i \in Indices |-> [s \in Slots |-> EmptySlot]]

Snapshots == [buckets : [Indices -> [Slots -> Fingerprints \cup {EmptySlot}]],
              count : Nat, confirmed : SUBSET Ids]

FilterInit ==
  /\ buckets = EmptyBuckets
  /\ count = 0
  /\ hand = NoHand
  /\ data = [buckets |-> EmptyBuckets, count |-> 0, confirmed |-> {}]
  /\ confirmed = {}

-----------------------------------------------------------------------------
Unlocked == hand = NoHand

HasRoom(b) == \E s \in Slots : b[s] = EmptySlot

FirstFree(b) ==
  CHOOSE s \in Slots : /\ b[s] = EmptySlot
                       /\ \A r \in 1..(s - 1) : b[r] /= EmptySlot

(* insertIntoBucket, into the first empty slot.                            *)
InsertIntoBucket(bs, i, fp) == [bs EXCEPT ![i][FirstFree(bs[i])] = fp]

(* Insert(k) has stored its last fingerprint fp in bucket i of bs.         *)
InsertDone(k, bs, i, fp) ==
  /\ buckets' = InsertIntoBucket(bs, i, fp)
  /\ count' = count + 1
  /\ hand' = NoHand
  /\ confirmed' = confirmed \cup {k}

(* Insert up to the loop.                                                  *)
Insert(k) ==
  LET fp == Fingerprint[k]
      i1 == Home[k]
      i2 == OtherIndex[fp][i1]
  IN  /\ Unlocked
      /\ \/ HasRoom(buckets[i1]) /\ InsertDone(k, buckets, i1, fp)
         \/ /\ ~HasRoom(buckets[i1])
            /\ HasRoom(buckets[i2])
            /\ InsertDone(k, buckets, i2, fp)
         \/ /\ ~HasRoom(buckets[i1])
            /\ ~HasRoom(buckets[i2])
            /\ \E i \in {i1, i2} :
                 hand' = [key |-> k, fp |-> fp, idx |-> i, kick |-> 0]
            /\ UNCHANGED <<buckets, count, confirmed>>
      /\ UNCHANGED data

(* Mutant: the displaced fingerprint is taken to its home only.            *)
KickInPlace(s) ==
  LET out == buckets[hand.idx][s]
      bs  == [buckets EXCEPT ![hand.idx][s] = hand.fp]
      i   == OtherIndex[hand.fp][hand.idx]
  IN  /\ ~Unlocked
      /\ hand.kick < MaxKicks
      /\ IF HasRoom(bs[i])
         THEN InsertDone(hand.key, bs, i, out)
         ELSE /\ buckets' = bs
              /\ hand' = [hand EXCEPT !.fp = out, !.idx = i, !.kick = @ + 1]
              /\ UNCHANGED <<count, confirmed>>
      /\ UNCHANGED data

(* Mutant: what is stored in the other bucket is the fingerprint that went *)
(* in, not the one that came out.                                          *)
KickLosesDisplaced(s) ==
  LET out == buckets[hand.idx][s]
      bs  == [buckets EXCEPT ![hand.idx][s] = hand.fp]
      i   == OtherIndex[out][hand.idx]
  IN  /\ ~Unlocked
      /\ hand.kick < MaxKicks
      /\ IF HasRoom(bs[i])
         THEN InsertDone(hand.key, bs, i, hand.fp)
         ELSE /\ buckets' = bs
              /\ hand' = [hand EXCEPT !.fp = out, !.idx = i, !.kick = @ + 1]
              /\ UNCHANGED <<count, confirmed>>
      /\ UNCHANGED data

(* One round of the loop: swap with a random slot, go to the other bucket  *)
(* of what came out, store it there if there is room.                      *)
Kick(s) ==
  LET out == buckets[hand.idx][s]
      bs  == [buckets EXCEPT ![hand.idx][s] = hand.fp]
      i   == OtherIndex[out][hand.idx]
  IN  /\ ~Unlocked
      /\ hand.kick < MaxKicks
      /\ IF HasRoom(bs[i])
         THEN InsertDone(hand.key, bs, i, out)
         ELSE /\ buckets' = bs
              /\ hand' = [hand EXCEPT !.fp = out, !.idx = i, !.kick = @ + 1]
              /\ UNCHANGED <<count, confirmed>>
      /\ UNCHANGED data

(* The ids that share fingerprint fp and have i among their buckets.       *)
Matching(fp, i) == {k \in Ids : Fingerprint[k] = fp /\ i \in BucketsOf(k)}

(* Insert returns FALSE and drops the fingerprint it has in hand, which    *)
(* need not be the one it was called for.                                  *)
InsertFails ==
  /\ ~Unlocked
  /\ hand.kick = MaxKicks
  /\ hand' = NoHand
  /\ confirmed' = confirmed \ Matching(hand.fp, hand.idx)
  /\ UNCHANGED <<buckets, count, data>>

Contains(k) ==
  \E i \in BucketsOf(k), s \in Slots : buckets[i][s] = Fingerprint[k]

Serialize ==
  /\ Unlocked
  /\ data' = [buckets |-> buckets, count |-> count, confirmed |-> confirmed]
  /\ UNCHANGED <<buckets, count, hand, confirmed>>

(* Mutant: the count is not restored.                                      *)
DeserializeBuckets ==
  /\ Unlocked
  /\ buckets' = data.buckets
  /\ confirmed' = data.confirmed
  /\ UNCHANGED <<count, hand, data>>

(* Deserialize of what was written; bytes of another length are refused    *)
(* and change nothing.                                                     *)
Deserialize ==
  /\ Unlocked
  /\ buckets' = data.buckets
  /\ count' = data.count
  /\ confirmed' = data.confirmed
  /\ UNCHANGED <<hand, data>>

FilterNext ==
  \/ \E k \in Ids : Insert(k)
  \/ \E s \in Slots : Kick(s)
  \/ InsertFails
  \/ Serialize
  \/ Deserialize

FilterSpec == FilterInit /\ [][FilterNext]_filterVars

-----------------------------------------------------------------------------
Occupied(bs) ==
  {slot \in Indices \X Slots : bs[slot[1]][slot[2]] /= EmptySlot}

(* Type invariant; the count is that of the occupied slots, whatever       *)
(* Insert displaced or failed to store.                                    *)
FilterTypeOK ==
  /\ [buckets |-> buckets, count |-> count, confirmed |-> confirmed]
       \in Snapshots
  /\ data \in Snapshots
  /\ hand \in Hand \cup {NoHand}
  /\ count = Cardinality(Occupied(buckets))

(* The ids whose fingerprint is in one of their buckets of bs.             *)
Answered(bs) ==
  {k \in Ids : \E i \in BucketsOf(k), s \in Slots : bs[i][s] = Fingerprint[k]}

(* The ids that are in a bucket of theirs or in the hand of Insert.        *)
Held ==
  Answered(buckets)
    \cup (IF Unlocked THEN {} ELSE Matching(hand.fp, hand.idx))

(***************************************************************************)
(* "Zero False Negatives: every inserted key MUST be present"              *)
(* (tests/m8_features_test.go:185), as far as the code keeps it: an id     *)
(* whose insertion was confirmed is found by every later Contains, through *)
(* any displacements and through saving and restoring, until an Insert     *)
(* fails and drops a fingerprint that cannot be told from its own.         *)
(***************************************************************************)
NoFalseNegatives == Unlocked => \A k \in confirmed : Contains(k)

(* The ids that the filter cannot tell from k.                             *)
AlikeIds(k) == Matching(Fingerprint[k], Home[k])

(***************************************************************************)
(* The filter implements the set it stands for: displacements are          *)
(* invisible, an Insert that returns TRUE loses nothing, and one that      *)
(* returns FALSE costs one class of ids at most.                           *)
(***************************************************************************)
AbstractSet ==
  INSTANCE RevocationSet
    WITH Alike <- AlikeIds,
         positives <- Held,
         reliable <- confirmed,
         adding <- hand.key,
         archive <- <<Answered(data.buckets), data.confirmed>>

FilterImplementsSet == AbstractSet!SetSpec

=============================================================================
