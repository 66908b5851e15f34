CONSTANTS
  Scenario <- AllEnvs
  MaxOrders = 6
SPECIFICATION FairSpec
INVARIANTS TypeOK BoughtIsWatched SalesBookedOnce SalesPriced FreshHigh
PROPERTIES PositionEnds
