CONSTANTS
  Symbol = {"A", "B"}
  TradeId = {"t1", "t2", "t3", "t4", "t5", "t6"}
  QueueFills <- Reported
  OrderFills <- Watched
  Holdings <- Reports
  Scenario <- AllEnvs
  MaxRetry = 1
  NoItem = NoItem
SPECIFICATION FairSpec
CHECK_DEADLOCK FALSE
INVARIANTS TypeOK AtMostOnce NeverShort OnlyRacesLose LostOnlyAfterClaim
PROPERTIES EveryFillSettles ImplementsBook
