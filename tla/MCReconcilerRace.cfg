SPECIFICATION ReconSpec
CONSTANTS
  alice = alice
  shop = shop
  off1 = off1
  off2 = off2
  negative = negative
  on1 = on1
  SystemEscrow = SystemEscrow
  SystemClearing = SystemClearing
  DeficitReserve = DeficitReserve
  SystemCapital = SystemCapital
  Accounts = {alice, shop, SystemEscrow, SystemClearing, DeficitReserve}
  Parties = {alice}
  GeneratedTxID = generated
  Amounts = {1}
  OpeningBalances <- MCOpeningBalances
  MaxEntries = 6
  WriteFaults = {}
  MaxFrames = 4
  TxIDs = {off1, off2, on1}
  QueuedTxIDs = {off1, off2}
  OnlineTxIDs = {on1}
  Payment <- MCPayment
  Recovered <- MCRecovered
  MaxOnline = 2
INVARIANT MerchantFullySettled
