CONSTANTS
  Proc = {"runner", "watcher", "feed"}
  Feeds = {"feed"}
  Fresh = 1
  CacheTTL = 2
  Validity = 3
  Scenario <- AllEnvs
  None = None
SPECIFICATION FairSpec
INVARIANTS TokenIsShared
PROPERTIES TokenReturns
