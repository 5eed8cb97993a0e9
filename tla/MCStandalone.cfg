SPECIFICATION StandaloneSpec
CONSTANTS
  customer = customer
  merchant = merchant
  unknown = unknown
  buy = buy
  refund = refund
  toUnknown = toUnknown
  fromUnknown = fromUnknown
  large = large
  negative = negative
  AccountDeficitReserve = AccountDeficitReserve
  Nobody = Nobody
  Accounts = {customer, merchant, unknown, AccountDeficitReserve}
  Opened = {customer, merchant, AccountDeficitReserve}
  Rank <- MCRank
  OpeningOnline <- MCOpeningOnline
  OpeningAllowance <- MCOpeningAllowance
  TxIDs = {buy, refund, toUnknown, fromUnknown, large, negative}
  Payment <- MCPayment
  Requests = {r1, r2}
  Toggles = {t1, t2, t3}
  Revoked = {}
  MaxSingleOfflineLimit = 2
INVARIANTS
  BooksBalance
  OverdraftIsUnchecked
PROPERTY AnsweredUnlessUnsafe
CHECK_DEADLOCK FALSE
