CONSTANTS
  Scenario <- AllEnvs
  MaxOrders = 4
SPECIFICATION FairSpec
INVARIANTS TypeOK LockGuardsSales NoSaleMissed IndexedIsKept
PROPERTIES Converges
