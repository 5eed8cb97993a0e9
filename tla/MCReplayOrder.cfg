SPECIFICATION ArrivalSpec
CONSTANT Queued <- MCQueued
INVARIANTS
  ReplayIsCausal
  ReplayIsReproducible
CHECK_DEADLOCK FALSE
