CONSTANTS
  Scenario <- TwiceEnvs
  MaxOrders = 2
SPECIFICATION Spec
INVARIANTS BuysBookedOnce
