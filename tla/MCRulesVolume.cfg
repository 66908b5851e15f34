CONSTANTS
  Scenario <- CoinEntry
  None = None
SPECIFICATION Spec
INVARIANTS CoinNeedsHistory
