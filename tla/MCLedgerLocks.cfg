SPECIFICATION FairLocksSpec
CONSTANTS
  customer = customer
  merchant = merchant
  SystemEscrow = SystemEscrow
  SystemClearing = SystemEscrow
  DeficitReserve = DeficitReserve
  SystemCapital = SystemCapital
  Accounts = {customer, merchant, SystemEscrow, DeficitReserve}
  Parties = {customer, merchant}
  TxIDs = {tx}
  GeneratedTxID = generated
  Amounts <- MCAmounts
  OpeningBalances = {0, 2}
  MaxEntries = 2
  Threads = {t1, t2}
  Calls <- MCCalls
  Rank <- MCRank
  MaxRank = 3
INVARIANTS
  OnlyDeficitsDeadlock
  QuietAuditIsExact
PROPERTIES
  LocksImplementLedger
  CallsReturn
CHECK_DEADLOCK FALSE
