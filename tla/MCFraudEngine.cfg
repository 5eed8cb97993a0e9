SPECIFICATION FraudSpec
CONSTANTS
  g1 = g1
  g2 = g2
  ann = ann
  bob = bob
  cyd = cyd
  dev1 = dev1
  dev2 = dev2
  pos = pos
  shop = shop
  other = other
  Accounts = {ann, bob, cyd}
  NoAccount = NoAccount
  Devices = {dev1, dev2}
  NoDevice = NoDevice
  Calls <- MCCalls
  TerminalMerchant <- MCTerminalMerchant
  Screeners = {g1, g2}
  Window = 2
  PruneEvery = 1
  DeviceLimit = 2
  HighAmount = 1
  Thresholds <- MCThresholds
  EpochInterval = 2
  MaxEpochSkew = 3
  MaxTime = 4
  MaxApproved = 3
SYMMETRY MCSymmetry
INVARIANTS
  FraudTypeOK
  NoLiveRing
  VelocityCapped
  QRLifetime
PROPERTY HistoryBounded
