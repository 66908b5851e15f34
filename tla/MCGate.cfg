CONSTANTS
  Runner = {"r1", "r2"}
  Symbol = {"A", "B", "C"}
  Signal = {1, 2, 3}
  Long = {1, 2}
  LossLimit = 1
  MaxOrders = 3
  Scenario <- AllEnvs
SPECIFICATION FairSpec
INVARIANTS TypeOK SignalOrderedOnce DailyCapKept OneBuyPerSymbol LimitKept TradingStops
PROPERTIES QueueServed
