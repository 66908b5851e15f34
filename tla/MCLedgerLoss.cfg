CONSTANTS
  Symbol = {"A", "B"}
  TradeId = {"t1", "t2", "t3", "t4", "t5", "t6"}
  QueueFills <- Reported
  OrderFills <- Watched
  Holdings <- Reports
  Scenario <- FailingEnv
  MaxRetry = 1
  NoItem = NoItem
SPECIFICATION Spec
CHECK_DEADLOCK FALSE
INVARIANTS NothingLost
