CONSTANTS
  MAX_FUTURES = 3
  Addr <- MCAddr
  Waits <- MCWaits
  Times <- MCTimes
  MaxPushes = 5
SPECIFICATION FairSpec
INVARIANTS TypeOK WindowInOrder
PROPERTIES PushReturns ImplementsFutureSet
