SPECIFICATION FilterSpec
CONSTANTS
  acc1 = acc1
  acc2 = acc2
  card1 = card1
  card2 = card2
  Ids = {acc1, acc2, card1, card2}
  Indices = {0, 1}
  Fingerprints = {1, 2, 3}
  Fingerprint <- MCFingerprint
  Home <- MCHome
  OtherIndex <- MCOtherIndex
  BucketSize = 2
  MaxKicks = 2
  EmptySlot = 0
  Nobody = Nobody
INVARIANTS
  FilterTypeOK
  NoFalseNegatives
PROPERTY FilterImplementsSet
