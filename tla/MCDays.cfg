CONSTANTS
  Scenario <- AllEnvs
  LastDay = 1
SPECIFICATION FairSpec
INVARIANTS KillswitchHolds TunedOnce
PROPERTIES RealizedSettles
