SPECIFICATION GatewaySpec
CONSTANTS
  alice = alice
  shop = shop
  pay1 = pay1
  pay2 = pay2
  req1 = req1
  retry1 = retry1
  req2 = req2
  key1 = key1
  tok1 = tok1
  SystemEscrow = SystemEscrow
  SystemClearing = SystemClearing
  DeficitReserve = DeficitReserve
  SystemCapital = SystemCapital
  Accounts = {alice, shop, SystemEscrow, SystemClearing, DeficitReserve}
  Parties = {alice}
  GeneratedTxID = generated
  Amounts = {1, 2}
  OpeningBalances = {4, 5}
  MaxEntries = 8
  WriteFaults = {"sync"}
  MaxFrames = 3
  TxIDs = {pay1, pay2}
  QueuedTxIDs = {pay1, pay2}
  OnlineTxIDs = {}
  Payment <- MCPayment
  Recovered <- MCRecovered
  MaxOnline = 0
  TokenIDs = {tok1}
  Terminals = {term1}
  Anywhere = Anywhere
  Ceilings = {2, 3}
  MaxOfflineFloorLimitCents = 3
  MaxTime = 1
  MaxGrants = 3
  Requests = {req1, retry1, req2}
  Request <- MCRequest
  Keys = {key1}
  NoKey = NoKey
  Here = term1
  Allowance = 3
  RetriesOverlap = TRUE
  MaxDue = 1
INVARIANT ChargedAtMostOnce
