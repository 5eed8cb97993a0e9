SPECIFICATION WALSpec
CONSTANTS
  TxIDs = {tx1, tx2, tx3}
  Accounts = {}
  Amounts = {}
  WriteFaults = {"header", "payload", "sync"}
  MaxFrames = 4
INVARIANTS
  OnlyTornFramesLose
  MapKnowsAcknowledged
