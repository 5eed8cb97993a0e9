SPECIFICATION LedgerSpec
CONSTANTS
  alice = alice
  shop = shop
  SystemEscrow = SystemEscrow
  SystemClearing = SystemClearing
  DeficitReserve = DeficitReserve
  SystemCapital = SystemCapital
  Accounts = {alice, shop, SystemEscrow, SystemClearing, DeficitReserve}
  Parties = {alice, shop}
  TxIDs = {tx}
  GeneratedTxID = generated
  Amounts <- MCAmounts
  OpeningBalances <- MCOpeningBalances
  MaxEntries = 3
SYMMETRY MCSymmetry
INVARIANTS
  LedgerTypeOK
  ConservationLaw
  JournalExplainsBalances
  EscrowBacksReserved
  BucketsNonNegative
  OverdraftIsUnchecked
PROPERTY BalancesMoveJournalled
