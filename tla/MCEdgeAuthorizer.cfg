SPECIFICATION EdgeSpec
CONSTANTS
  tok1 = tok1
  tok2 = tok2
  term1 = term1
  term2 = term2
  TxIDs = {}
  Accounts = {alice}
  Amounts <- MCAmounts
  TokenIDs = {tok1, tok2}
  Terminals = {term1, term2}
  Anywhere = Anywhere
  Ceilings <- MCCeilings
  MaxOfflineFloorLimitCents = 2
  MaxTime = 1
  MaxGrants = 3
SYMMETRY MCSymmetry
INVARIANTS
  TerminalSpendCapped
  BoundTokensCapped
